---- MODULE Spec2Model ----
(***************************************************************************)
(* A model of scripts/generate_rss.py: the shared requests session, the   *)
(* recursive sitemap resolver, the date and feed parsers, the phases of   *)
(* main() with their worker pools, and the filter / dedupe / build tail    *)
(* of main().                                                              *)
(*                                                                         *)
(* Time is counted in whole days in the runs of main() and in hours where  *)
(* the parsers run on their own.  A feed entry is a record                 *)
(* [title, link, published, source_page], as the dicts of the script.      *)
(***************************************************************************)
EXTENDS Integers, Sequences, FiniteSets, TLC

VARIABLES
    \* ---- main() ----
    mpc,              \* position of the main thread in main()
    now,              \* the wall clock (days)
    backfill,         \* BACKFILL_DAYS as read from the environment
    cutoff,           \* now - BACKFILL_DAYS, computed at the start of main()
    all_urls,         \* result of parse_sitemap(SITEMAP_URL)
    discovered_feeds, \* the accumulator of discover_rss_feeds()
    aggregated,       \* list of entries collected from feeds or scraping
    window_items,     \* entries that passed the recency filter
    final,            \* entries after deduplication
    rss_xml,          \* entries of the emitted feed document, in document order
    written,          \* TRUE once the feed has been written to OUTPUT_PATH
    tasks,            \* every task submitted to a pool of main()/discover_rss_feeds()
    world,            \* what the remote site serves in this run
    \* ---- parse_sitemap() ----
    site,             \* the sitemap documents the remote site serves
    calls,            \* the invocations of parse_sitemap, by path from the root
    \* ---- get_session() ----
    session,          \* the global _session: 0 for None, else the object's id
    session_lock,     \* holder of _session_lock, 0 when free
    tpc,              \* position of each thread inside get_session()
    ret,              \* what each thread's last call of get_session() returned
    ncalls,           \* number of completed calls of get_session() per thread
    created,          \* number of requests.Session objects constructed
    configured,       \* how far each session object has been set up
    \* ---- normalize_date(), extract_date_from_soup(), parse_rss_feed() ----
    fpc,              \* position inside the function under study
    soup,             \* the page given to extract_date_from_soup
    date_text,        \* the argument of normalize_date
    dt,               \* the timestamp returned
    content,          \* the document fetch(feed_url) returned to parse_rss_feed
    parsed_items      \* the list parse_rss_feed returns

mainVars == <<mpc, now, backfill, cutoff, all_urls, discovered_feeds, aggregated,
              window_items, final, rss_xml, written, tasks, world>>
sitemapVars == <<site, calls>>
sessionVars == <<session, session_lock, tpc, ret, ncalls, created, configured>>
parseVars == <<fpc, soup, date_text, dt, content, parsed_items>>
vars == <<mainVars, sitemapVars, sessionVars, parseVars>>

(***************************************************************************)
(* Bounds of the model and constants of the program.                       *)
(***************************************************************************)
MaxItems == 3            \* longest list of entries drawn as an input
NThreads == 3            \* threads that call get_session()
MaxCalls == 2            \* calls of get_session() per thread

MaxDepth == 3            \* deepest nesting of parse_sitemap that is unfolded

MAX_WORKERS == 10        \* width of every ThreadPoolExecutor
DEFAULT_BACKFILL_DAYS == 14

Range(s) == {s[i] : i \in 1..Len(s)}

(***************************************************************************)
(* The tail of main(): recency filter, deduplication, build_feed.          *)
(***************************************************************************)

\* it["published"] >= cutoff
InWindowStrict(it, c) == it.published > c
InWindow(it, c) == it.published >= c

\* the loop of step 6: keep an entry unless its link is in seen
RECURSIVE DedupeLoop(_, _, _)
DedupeLoop(items, seen, acc) ==
    IF items = <<>> THEN acc
    ELSE IF Head(items).link \in seen
         THEN DedupeLoop(Tail(items), seen, acc)
         ELSE DedupeLoop(Tail(items), seen \cup {Head(items).link},
                         Append(acc, Head(items)))

\* a deduplication in which a later entry replaces the one kept so far
RECURSIVE DedupeLastWins(_)
DedupeLastWins(items) ==
    IF items = <<>> THEN <<>>
    ELSE IF \E j \in 2..Len(items) : items[j].link = Head(items).link
         THEN DedupeLastWins(Tail(items))
         ELSE <<Head(items)>> \o DedupeLastWins(Tail(items))

Deduplicate(items) == DedupeLoop(items, {}, <<>>)

\* window_items = [it for it in aggregated if it["published"] >= cutoff];
\* beside it a filter that sees the list only after its links were made unique
WindowOfDeduplicated(items, c) ==
    SelectSeq(Deduplicate(items), LAMBDA it : InWindow(it, c))
RECURSIVE ApplyWindow(_, _)
ApplyWindow(items, c) ==
    IF items = <<>> THEN <<>>
    ELSE IF InWindow(Head(items), c)
         THEN <<Head(items)>> \o ApplyWindow(Tail(items), c)
         ELSE ApplyWindow(Tail(items), c)

\* sorted(items, key=published, reverse=True): a stable sort, newest first.
\* Insert x behind every element that is at least as new.
RECURSIVE InsertDesc(_, _)
InsertDesc(sorted, x) ==
    IF sorted = <<>> THEN <<x>>
    ELSE IF Head(sorted).published >= x.published
         THEN <<Head(sorted)>> \o InsertDesc(Tail(sorted), x)
         ELSE <<x>> \o sorted

RECURSIVE SortLoop(_, _)
SortLoop(items, acc) ==
    IF items = <<>> THEN acc
    ELSE SortLoop(Tail(items), InsertDesc(acc, Head(items)))

SortedNewestFirst(items) == SortLoop(items, <<>>)

\* fg.add_entry(): feedgen's FeedGenerator.add_entry(feedEntry=None,
\* order='prepend') inserts the new entry at the head of the feed's entries.
AddEntry(entries, it) == <<it>> \o entries

RECURSIVE AddAll(_, _)
AddAll(entries, items) ==
    IF items = <<>> THEN entries
    ELSE AddAll(AddEntry(entries, Head(items)), Tail(items))

\* build_feed(items): the entries of the document fg.rss_str() serialises
BuildFeed(items) == AddAll(<<>>, SortedNewestFirst(items))

\* step 5
FilterStep ==
    /\ mpc = "filter"
    /\ window_items' = ApplyWindow(aggregated, cutoff)
    /\ mpc' = "dedupe"
    /\ UNCHANGED <<now, backfill, cutoff, all_urls, discovered_feeds, aggregated,
                   final, rss_xml, written, tasks, world>>
    /\ UNCHANGED <<sitemapVars, sessionVars, parseVars>>

\* step 6
DedupeStep ==
    /\ mpc = "dedupe"
    /\ final' = Deduplicate(window_items)
    /\ mpc' = "build"
    /\ UNCHANGED <<now, backfill, cutoff, all_urls, discovered_feeds, aggregated,
                   window_items, rss_xml, written, tasks, world>>
    /\ UNCHANGED <<sitemapVars, sessionVars, parseVars>>

\* step 7: rss_xml = build_feed(final)
BuildStep ==
    /\ mpc = "build"
    /\ rss_xml' = BuildFeed(final)
    /\ mpc' = "write"
    /\ UNCHANGED <<now, backfill, cutoff, all_urls, discovered_feeds, aggregated,
                   window_items, final, written, tasks, world>>
    /\ UNCHANGED <<sitemapVars, sessionVars, parseVars>>

\* step 7: f.write(rss_xml)
WriteStep ==
    /\ mpc = "write"
    /\ written' = TRUE
    /\ mpc' = "done"
    /\ UNCHANGED <<now, backfill, cutoff, all_urls, discovered_feeds, aggregated,
                   window_items, final, rss_xml, tasks, world>>
    /\ UNCHANGED <<sitemapVars, sessionVars, parseVars>>


(***************************************************************************)
(* get_session(): the lazily created global session, double-checked under *)
(* _session_lock.  Session objects are numbered 1, 2, ... in the order of  *)
(* construction; 0 stands for None.  configured[s] counts the set-up steps *)
(* done on object s: mount('http://'), mount('https://'), headers.update.  *)
(***************************************************************************)
Threads == 1..NThreads

\* "with _session_lock" can be entered
LockIgnored == TRUE
LockFree == session_lock = 0

\* def get_session(): entered by thread t
Call(t) ==
    /\ tpc[t] = "idle"
    /\ ncalls[t] < MaxCalls
    /\ tpc' = [tpc EXCEPT ![t] = "check1"]
    /\ UNCHANGED <<session, session_lock, ret, ncalls, created, configured>>
    /\ UNCHANGED <<mainVars, sitemapVars, parseVars>>

\* if _session is None:   (outside the lock)
Check1(t) ==
    /\ tpc[t] = "check1"
    /\ tpc' = [tpc EXCEPT ![t] = IF session = 0 THEN "lock" ELSE "return"]
    /\ UNCHANGED <<session, session_lock, ret, ncalls, created, configured>>
    /\ UNCHANGED <<mainVars, sitemapVars, parseVars>>

\* with _session_lock:
Acquire(t) ==
    /\ tpc[t] = "lock"
    /\ LockFree
    /\ session_lock' = t
    /\ tpc' = [tpc EXCEPT ![t] = "check2"]
    /\ UNCHANGED <<session, ret, ncalls, created, configured>>
    /\ UNCHANGED <<mainVars, sitemapVars, parseVars>>

\* if _session is None:   (inside the lock)
Check2(t) ==
    /\ tpc[t] = "check2"
    /\ tpc' = [tpc EXCEPT ![t] = IF session = 0 THEN "construct" ELSE "unlock"]
    /\ UNCHANGED <<session, session_lock, ret, ncalls, created, configured>>
    /\ UNCHANGED <<mainVars, sitemapVars, parseVars>>

\* _session = requests.Session()
Construct(t) ==
    /\ tpc[t] = "construct"
    /\ created' = created + 1
    /\ session' = created + 1
    /\ configured' = Append(configured, 0)
    /\ tpc' = [tpc EXCEPT ![t] = "mount_http"]
    /\ UNCHANGED <<session_lock, ret, ncalls>>
    /\ UNCHANGED <<mainVars, sitemapVars, parseVars>>

\* _session.mount('http://', adapter); _session.mount('https://', adapter);
\* _session.headers.update(HEADERS): each acts on the object _session names
SetUp(t, from, to) ==
    /\ tpc[t] = from
    /\ configured' = [configured EXCEPT ![session] = @ + 1]
    /\ tpc' = [tpc EXCEPT ![t] = to]
    /\ UNCHANGED <<session, session_lock, ret, ncalls, created>>
    /\ UNCHANGED <<mainVars, sitemapVars, parseVars>>

MountHttp(t) == SetUp(t, "mount_http", "mount_https")
MountHttps(t) == SetUp(t, "mount_https", "headers")
UpdateHeaders(t) == SetUp(t, "headers", "unlock")

\* leaving the with block
Release(t) ==
    /\ tpc[t] = "unlock"
    /\ session_lock' = 0
    /\ tpc' = [tpc EXCEPT ![t] = "return"]
    /\ UNCHANGED <<session, ret, ncalls, created, configured>>
    /\ UNCHANGED <<mainVars, sitemapVars, parseVars>>

\* return _session
Return(t) ==
    /\ tpc[t] = "return"
    /\ ret' = [ret EXCEPT ![t] = session]
    /\ ncalls' = [ncalls EXCEPT ![t] = @ + 1]
    /\ tpc' = [tpc EXCEPT ![t] = "idle"]
    /\ UNCHANGED <<session, session_lock, created, configured>>
    /\ UNCHANGED <<mainVars, sitemapVars, parseVars>>

SessionNext ==
    \/ \E t \in Threads : Call(t)
    \/ \E t \in Threads : Check1(t)
    \/ \E t \in Threads : Acquire(t)
    \/ \E t \in Threads : Check2(t)
    \/ \E t \in Threads : Construct(t)
    \/ \E t \in Threads : MountHttp(t)
    \/ \E t \in Threads : MountHttps(t)
    \/ \E t \in Threads : UpdateHeaders(t)
    \/ \E t \in Threads : Release(t)
    \/ \E t \in Threads : Return(t)

(***************************************************************************)
(* parse_sitemap(url).  The remote site is a record                        *)
(*   docs    : document id -> [kind, kids, locs, stray]                    *)
(*   outcome : document id -> what the server answers:                     *)
(*               "ok"           the XML document as it is                  *)
(*               "fetch_fail"   fetch_bytes raises                         *)
(*               "bad_xml"      bytes that are no XML                      *)
(*               "gzip"         the XML document, gzip-compressed          *)
(*               "gzip_junk"    bytes that are no XML, gzip-compressed     *)
(*               "gzip_corrupt" the gzip magic and then bytes that do not  *)
(*                              inflate                                    *)
(* A document id is the URL of the document.                               *)
(* kind is the local name of the root tag ("sitemapindex", "urlset" or     *)
(* "other"), kids the <sitemap><loc> texts, locs the <url><loc> texts and  *)
(* stray the <loc> elements found elsewhere in the tree.                   *)
(*                                                                         *)
(* An invocation is named by its path from the root invocation: <<>> is    *)
(* parse_sitemap(SITEMAP_URL), Append(p, k) the task submitted for the     *)
(* k-th nested sitemap of invocation p.  Its st is                         *)
(*   "queued"    submitted to the executor of p, no worker has taken it    *)
(*   "fetch"     a worker runs it; fetch_bytes is in progress              *)
(*   "wait"      it has submitted its nested sitemaps and iterates         *)
(*               as_completed                                              *)
(*   "done"      it has returned (its future is finished)                  *)
(*   "raised"    it has ended with an exception                            *)
(*   "collected" its result has been taken by the loop of its parent       *)
(***************************************************************************)
RootPath == <<>>
Parent(p) == SubSeq(p, 1, Len(p) - 1)
Children(p) == {Append(p, k) : k \in 1..calls[p].nkids}
Running(p) == {q \in Children(p) : calls[q].st \in {"fetch", "wait"}}

NewCall(d, st) == [doc |-> d, st |-> st, urls |-> <<>>, nkids |-> 0]

\* url.lower().endswith(".gz"), for the URLs of the modelled sites
EndsWithGz(url) == url \in {"A.gz"}

\* content[:2] == b"\x1f\x8b"
GzipMagic(o) == o \in {"gzip", "gzip_junk", "gzip_corrupt"}

\* gz.read() returns (it raises otherwise, which line 130 catches)
Inflates(o) == o \in {"gzip", "gzip_junk"}

\* maybe_decompress_sitemap(url, content): the inflated bytes when the URL
\* ends in .gz or the content starts with the gzip magic, and it inflates;
\* else the content as it came.  Beside it a variant that trusts the URL only.
OnlyBySuffix(url, o) ==
    IF EndsWithGz(url) /\ Inflates(o) THEN "inflated" ELSE "raw"
MaybeDecompress(url, o) ==
    IF (EndsWithGz(url) \/ GzipMagic(o)) /\ Inflates(o) THEN "inflated" ELSE "raw"

\* lines 149-157: fetch_bytes returns and ET.fromstring accepts the bytes
\* maybe_decompress_sitemap hands over
Readable(d) ==
    /\ site.outcome[d] # "fetch_fail"
    /\ IF MaybeDecompress(d, site.outcome[d]) = "inflated"
       THEN site.outcome[d] = "gzip"
       ELSE site.outcome[d] = "ok"

\* lines 149-160: an exception of fetch_bytes / ET.fromstring is caught and
\* the invocation returns []
OnFailureRaise(c) == [c EXCEPT !.st = "raised"]
OnFailure(c) == [c EXCEPT !.st = "done", !.urls = <<>>]

\* lines 193-207: a urlset yields its <url><loc> texts; when that leaves urls
\* empty, or for any other root tag, every <loc> of the tree is collected
UrlsOfDocument(d) ==
    IF d.kind = "urlset" /\ d.locs # <<>> THEN d.locs ELSE d.locs \o d.stray

\* line 187: urls.extend(future.result())
KeepLast(urls, result) == result
Extend(urls, result) == urls \o result

\* a worker of the executor of Parent(p) takes task p from the queue; the
\* executor runs at most MAX_WORKERS tasks and hands them out in the order
\* of submission
StartTask(p) ==
    /\ p \in DOMAIN calls
    /\ p # RootPath
    /\ calls[p].st = "queued"
    /\ \A q \in Children(Parent(p)) : q[Len(q)] < p[Len(p)] => calls[q].st # "queued"
    /\ Cardinality(Running(Parent(p))) < MAX_WORKERS
    /\ calls' = [calls EXCEPT ![p].st = "fetch"]
    /\ UNCHANGED site
    /\ UNCHANGED <<mainVars, sessionVars, parseVars>>

\* lines 168-184: the document of invocation p is a sitemap index that lists
\* nested sitemaps, for each of which p submits an invocation
Submits(p) ==
    /\ Readable(calls[p].doc)
    /\ site.docs[calls[p].doc].kind = "sitemapindex"
    /\ site.docs[calls[p].doc].kids # <<>>

\* lines 149-191, 193-207: fetch_bytes returns or raises; the bytes are
\* decompressed if need be and parsed; a sitemapindex submits one task per nested sitemap, anything else
\* returns its urls.  The invocations are unfolded to the depth MaxDepth:
\* one at that depth is not followed into the invocations it submits.
FetchDone(p) ==
    /\ p \in DOMAIN calls
    /\ calls[p].st = "fetch"
    /\ Submits(p) => Len(p) < MaxDepth
    /\ LET d == site.docs[calls[p].doc]
           kidPaths == {Append(p, k) : k \in 1..Len(d.kids)}
       IN  calls' =
             CASE ~Readable(calls[p].doc) ->
                    [calls EXCEPT ![p] = OnFailure(@)]
               [] Readable(calls[p].doc) /\ d.kind = "sitemapindex"
                    /\ d.kids = <<>> ->
                    [calls EXCEPT ![p].st = "done"]
               [] Readable(calls[p].doc) /\ d.kind = "sitemapindex"
                    /\ d.kids # <<>> ->
                    [q \in DOMAIN calls \cup kidPaths |->
                        IF q \in kidPaths THEN NewCall(d.kids[q[Len(q)]], "queued")
                        ELSE IF q = p
                             THEN [calls[p] EXCEPT !.st = "wait", !.nkids = Len(d.kids)]
                             ELSE calls[q]]
               [] OTHER ->
                    [calls EXCEPT ![p].st = "done", ![p].urls = UrlsOfDocument(d)]
    /\ UNCHANGED site
    /\ UNCHANGED <<mainVars, sessionVars, parseVars>>

\* lines 185-190: as_completed hands a finished future to the loop of p;
\* its result extends urls, its exception is caught and logged
Collect(p, q) ==
    /\ p \in DOMAIN calls
    /\ calls[p].st = "wait"
    /\ q \in Children(p)
    /\ calls[q].st \in {"done", "raised"}
    /\ calls' = [calls EXCEPT
                    ![p].urls = IF calls[q].st = "done" THEN Extend(@, calls[q].urls)
                                ELSE @,
                    ![q].st = "collected"]
    /\ UNCHANGED site
    /\ UNCHANGED <<mainVars, sessionVars, parseVars>>

\* line 191: the loop has seen every future, the with block ends, return urls
ReturnUrls(p) ==
    /\ p \in DOMAIN calls
    /\ calls[p].st = "wait"
    /\ \A q \in Children(p) : calls[q].st = "collected"
    /\ calls' = [calls EXCEPT ![p].st = "done"]
    /\ UNCHANGED site
    /\ UNCHANGED <<mainVars, sessionVars, parseVars>>

SitemapNext ==
    \/ \E p \in DOMAIN calls : StartTask(p)
    \/ \E p \in DOMAIN calls : FetchDone(p)
    \/ \E p, q \in DOMAIN calls : Collect(p, q)
    \/ \E p \in DOMAIN calls : ReturnUrls(p)

(***************************************************************************)
(* normalize_date(date_text) and extract_date_from_soup(soup).             *)
(*                                                                         *)
(* A timestamp is an integer, the instant in UTC.  The unit is the day in  *)
(* the runs of main() and the hour in the specifications of this section,  *)
(* where offsets from UTC are drawn.                                       *)
(*                                                                         *)
(* A date text is a record [kind, wall, zone, off]:                        *)
(*   kind  "none" (None), "empty" (""), "junk" (a text dateutil rejects)   *)
(*         or "date"                                                       *)
(*   wall  the reading of the clock written in the text                    *)
(*   zone  "naive"  no zone designation                                    *)
(*         "offset" a numeric offset (+0100), or Z / UTC / GMT             *)
(*         "name"   a zone abbreviation such as EST                        *)
(*   off   the offset from UTC of the zone designated                      *)
(***************************************************************************)
DateText(kind, wall, zone, off) == [kind |-> kind, wall |-> wall, zone |-> zone, off |-> off]
NoneText == DateText("none", 0, "naive", 0)
EmptyText == DateText("empty", 0, "naive", 0)
JunkText == DateText("junk", 0, "naive", 0)
Naive(wall) == DateText("date", wall, "naive", 0)
WithOffset(wall, off) == DateText("date", wall, "offset", off)
WithZoneName(wall, off) == DateText("date", wall, "name", off)
Utc(wall) == WithOffset(wall, 0)

\* dateparser.parse(date_text) returns (it raises ParserError otherwise)
DateParses(text) == text.kind = "date"

\* dateutil.parser.parse without tzinfos: a numeric offset or a UTC name gives
\* an aware datetime; an abbreviation it has no offset for (the host's own
\* zone is UTC) is dropped with UnknownTimezoneWarning and the datetime
\* returned is naive
DateParse(text) ==
    [wall |-> text.wall,
     tzinfo |-> IF text.zone = "offset" THEN <<text.off>> ELSE <<>>]

\* lines 468-470: a naive datetime gets tzinfo UTC; astimezone(timezone.utc)
AsUtc(d) == IF d.tzinfo = <<>> THEN d.wall ELSE d.wall - d.tzinfo[1]

\* lines 456-472, with clock the value of datetime.now(timezone.utc)
NormalizeDate(text, clock) ==
    IF text.kind \in {"none", "empty"} THEN clock
    ELSE IF ~DateParses(text) THEN clock
    ELSE AsUtc(DateParse(text))

(***************************************************************************)
(* A page is a record                                                      *)
(*   meta  : for each of the four selectors of line 486, in that order,    *)
(*           <<c>> with c the content attribute of the first element the   *)
(*           selector matches, <<>> when there is none or it is empty      *)
(*   time  : <<>> without a time element, else <<[datetime, text]>> for    *)
(*           the first one, each <<>> when missing or empty                *)
(*   elems : the elements of the page in document order, keyword telling   *)
(*           that the text holds one of the keywords of line 510 and shape *)
(*           <<m>> with m the first match of the regex of line 515         *)
(***************************************************************************)
META_SELECTORS == 1..4

Soup(meta, time, elems) == [meta |-> meta, time |-> time, elems |-> elems]
TimeEl(datetime, text) == [datetime |-> datetime, text |-> text]
Element(keyword, shape) == [keyword |-> keyword, shape |-> shape]

\* lines 492-495: the first selector with an element that has a content
MetaCandidate(s) ==
    IF \E i \in META_SELECTORS : s.meta[i] # <<>>
    THEN s.meta[CHOOSE i \in META_SELECTORS :
                    /\ s.meta[i] # <<>>
                    /\ \A j \in 1..(i - 1) : s.meta[j] = <<>>]
    ELSE <<>>

\* lines 498-504: the datetime attribute of the time element, else its text
TimeCandidate(s) ==
    IF s.time = <<>> THEN <<>>
    ELSE IF s.time[1].datetime # <<>> THEN s.time[1].datetime
    ELSE s.time[1].text

\* lines 507-517: the loop over soup.select("*")
RECURSIVE ScanCandidate(_)
ScanCandidate(elems) ==
    IF elems = <<>> THEN <<>>
    ELSE IF Head(elems).keyword /\ Head(elems).shape # <<>> THEN Head(elems).shape
    ELSE ScanCandidate(Tail(elems))

\* the text handed to normalize_date, <<>> when line 520 is reached; beside
\* it a candidate order that looks at the time element before the meta tags
TimeFirst(s) ==
    IF TimeCandidate(s) # <<>> THEN TimeCandidate(s)
    ELSE IF MetaCandidate(s) # <<>> THEN MetaCandidate(s)
    ELSE ScanCandidate(s.elems)
DateCandidate(s) ==
    IF MetaCandidate(s) # <<>> THEN MetaCandidate(s)
    ELSE IF TimeCandidate(s) # <<>> THEN TimeCandidate(s)
    ELSE ScanCandidate(s.elems)

\* extract_date_from_soup(soup)
ExtractDateFromSoup(s, clock) ==
    IF DateCandidate(s) = <<>> THEN clock
    ELSE NormalizeDate(DateCandidate(s)[1], clock)

\* extract_date_from_soup up to its return statement: one of the three
\* strategies returns normalize_date(text), or line 520 returns the clock
SelectDateText ==
    /\ fpc = "extract_date_from_soup"
    /\ IF DateCandidate(soup) = <<>>
       THEN /\ dt' = now
            /\ fpc' = "returned"
            /\ UNCHANGED date_text
       ELSE /\ date_text' = DateCandidate(soup)[1]
            /\ fpc' = "normalize_date"
            /\ UNCHANGED dt
    /\ UNCHANGED <<soup, content, parsed_items>>
    /\ UNCHANGED <<mainVars, sitemapVars, sessionVars>>

\* normalize_date(date_text) runs and returns
NormalizeDateCall ==
    /\ fpc = "normalize_date"
    /\ dt' = NormalizeDate(date_text, now)
    /\ fpc' = "returned"
    /\ UNCHANGED <<soup, date_text, content, parsed_items>>
    /\ UNCHANGED <<mainVars, sitemapVars, sessionVars>>

DateNext == SelectDateText \/ NormalizeDateCall

(***************************************************************************)
(* parse_rss_feed(feed_url).  The document fetched is a record             *)
(* [root, entries]: root is the local name of the root tag, entries the    *)
(* <item> elements of the channel (RSS) or the <entry> elements (Atom),    *)
(* each the sequence of its child elements [tag, text, href] in document   *)
(* order.  text is <<>> when elem.text is empty, else <<v>> with v a title *)
(* string, a URL or a date text; href is the href attribute.  A link text  *)
(* carries no surrounding white space; the title " " is all white space.   *)
(***************************************************************************)
Elem(tag, text, href) == [tag |-> tag, text |-> text, href |-> href]
Document(root, entries) == [root |-> root, entries |-> entries]

\* elem.text.strip() on a title
Strip(s) == IF s = " " THEN "" ELSE s

NoFields == [title |-> "", link |-> <<>>, pub_date |-> <<>>]

\* lines 383-390: one pass of "for elem in item" of an RSS item
RssField(acc, e, clock) ==
    IF e.tag = "title" /\ e.text # <<>> THEN [acc EXCEPT !.title = Strip(e.text[1])]
    ELSE IF e.tag = "link" /\ e.text # <<>> THEN [acc EXCEPT !.link = e.text]
    ELSE IF e.tag = "pubDate" /\ e.text # <<>>
         THEN [acc EXCEPT !.pub_date = <<NormalizeDate(e.text[1], clock)>>]
    ELSE acc

\* lines 410-419: one pass of "for elem in entry" of an Atom entry
AtomField(acc, e, clock) ==
    IF e.tag = "title" /\ e.text # <<>> THEN [acc EXCEPT !.title = Strip(e.text[1])]
    ELSE IF e.tag = "link"
         THEN (IF e.href # <<>> THEN [acc EXCEPT !.link = e.href] ELSE acc)
    ELSE IF e.tag \in {"published", "updated"} /\ e.text # <<>>
         THEN [acc EXCEPT !.pub_date = <<NormalizeDate(e.text[1], clock)>>]
    ELSE acc

RECURSIVE Fields(_, _, _, _)
Fields(elems, root, acc, clock) ==
    IF elems = <<>> THEN acc
    ELSE Fields(Tail(elems), root,
                IF root = "rss" THEN RssField(acc, Head(elems), clock)
                ELSE AtomField(acc, Head(elems), clock),
                clock)

\* lines 392-398, 421-427: "if title and link: items.append(...)"; beside it
\* a parser that also wants a date
HasTitleLinkAndDate(x) == x.title # "" /\ x.link # <<>> /\ x.pub_date # <<>>
HasTitleAndLink(x) == x.title # "" /\ x.link # <<>>

\* the loops of lines 375-398 and 402-427
RECURSIVE ParseItems(_, _, _, _)
ParseItems(f, entries, root, clock) ==
    IF entries = <<>> THEN <<>>
    ELSE LET x == Fields(Head(entries), root, NoFields, clock)
             rest == ParseItems(f, Tail(entries), root, clock)
         IN  IF HasTitleAndLink(x)
             THEN <<[title |-> x.title, link |-> x.link[1],
                     published |-> IF x.pub_date = <<>> THEN clock ELSE x.pub_date[1],
                     source_page |-> f]>> \o rest
             ELSE rest

\* lines 363-427: the items of an rss or feed root, nothing for another root
ParseRssFeed(f, doc, clock) ==
    IF doc.root \in {"rss", "feed"} THEN ParseItems(f, doc.entries, doc.root, clock)
    ELSE <<>>

\* What fetch(feed_url) does is a record [kind, root, entries]:
\*   "fetch_fail"  fetch raises (no connection, timeout, HTTP error status)
\*   "empty"       it returns ""
\*   "text"        it returns a text with none of "<rss", "<feed", "<?xml"
\*   "malformed"   it returns a text with one of them that ET.fromstring rejects
\*   "xml"         it returns the well-formed document of the given root and
\*                 entries
Fetched(kind, doc) == [kind |-> kind, root |-> doc.root, entries |-> doc.entries]
NoDocument == Document("none", <<>>)

\* line 354: "if not content"
IsEmpty(c) == c.kind = "empty"

\* line 359: one of the three markers occurs in content.lower()
LooksLikeXml(c) == c.kind \in {"malformed", "xml"}

\* how a call of parse_rss_feed ends: "return items" of lines 356, 361 and 434
Returns(items) == [raised |-> FALSE, items |-> items]

\* lines 431-434: "except Exception" logs and falls through to "return
\* items"; beside it a parser that lets the exception leave
Propagate(items) == [raised |-> TRUE, items |-> <<>>]
Caught(items) == [raised |-> FALSE, items |-> items]

\* parse_rss_feed(feed_url), lines 348-434; items is [] wherever an
\* exception of fetch or of ET.fromstring is raised
ParseFeedUrl(f, c, clock) ==
    IF c.kind = "fetch_fail" THEN Caught(<<>>)
    ELSE IF IsEmpty(c) THEN Returns(<<>>)
    ELSE IF ~LooksLikeXml(c) THEN Returns(<<>>)
    ELSE IF c.kind = "malformed" THEN Caught(<<>>)
    ELSE Returns(ParseRssFeed(f, c, clock))

\* parse_rss_feed(feed_url), fetch doing what content says
ParseRssFeedCall ==
    /\ fpc = "parse_rss_feed"
    /\ LET r == ParseFeedUrl("feed_url", content, now)
       IN  /\ parsed_items' = r.items
           /\ fpc' = IF r.raised THEN "raised" ELSE "returned"
    /\ UNCHANGED <<soup, date_text, dt, content>>
    /\ UNCHANGED <<mainVars, sitemapVars, sessionVars>>

\* lines 600-606, one pass of the loop of main(): items = future.result();
\* aggregated.extend(items); an exception of the future is logged
FeedLoopPass ==
    /\ fpc \in {"returned", "raised"}
    /\ aggregated' = IF fpc = "returned" THEN aggregated \o parsed_items ELSE aggregated
    /\ fpc' = "extended"
    /\ UNCHANGED <<mpc, now, backfill, cutoff, all_urls, discovered_feeds,
                   window_items, final, rss_xml, written, tasks, world>>
    /\ UNCHANGED <<soup, date_text, dt, content, parsed_items>>
    /\ UNCHANGED <<sitemapVars, sessionVars>>

(***************************************************************************)
(* main() and discover_rss_feeds().  A URL is a record [host, path] with   *)
(* path the sequence of its path segments; the host "[" stands for a text  *)
(* with an unmatched bracket, on which urllib's urlparse raises ValueError. *)
(*                                                                         *)
(* tasks lists, in the order of submission, every task handed to one of    *)
(* the executors of discover_rss_feeds() and main(): [phase, url, st,      *)
(* result] with st "queued", "running", "done" (the future is finished),   *)
(* "taken" (the as_completed loop of the main thread has its result in     *)
(* hand) or "collected" (the loop has added the result to its accumulator).*)
(* world.live holds the URLs that answer HEAD as a feed, world.links the   *)
(* feed links each HTML page carries.                                      *)
(***************************************************************************)
Help(path) == [host |-> "help.zscaler.com", path |-> path]
BASE == Help(<<>>)
RSS_PATHS == <<"rss", "rss.xml", "feed", "feed.xml", "atom.xml">>
URL_INCLUDE_HINTS == {"release-notes", "whats-new", "what's-new"}
URL_EXCLUDE_HINTS == {"tag", "taxonomy", "author", "search", "attachment", "node"}
MAX_SECTION_PAGES_TO_CHECK == 10

\* urljoin(base, path) for an absolute path
UrlJoin(base, path) == [host |-> base.host, path |-> path]

\* urlparse(url) returns
UrlParses(u) == u.host # "["

\* is_help_domain(url)
IsHelpDomain(u) == UrlParses(u) /\ u.host = "help.zscaler.com"

\* lines 268-275: the first one and two path segments of a sitemap URL
PrefixesOf(u) ==
    IF u.path = <<>> THEN {}
    ELSE {SubSeq(u.path, 1, 1)} \cup
         (IF Len(u.path) > 1 THEN {SubSeq(u.path, 1, 2)} ELSE {})

PathPrefixes(urls) == UNION {PrefixesOf(urls[i]) : i \in 1..Len(urls)}

\* every order in which a Python set can be iterated
Orderings(S) ==
    {f \in [1..Cardinality(S) -> S] : \A i, j \in 1..Cardinality(S) : f[i] = f[j] => i = j}

\* a[i] < b[i] at the first segment where the paths differ, by the order of
\* the segments that occur on the modelled site
SegmentRank(x) ==
    CASE x = "release-notes" -> 1
      [] x = "rss-feed" -> 2
      [] x = "zia" -> 3
      [] x = "zpa" -> 4
      [] OTHER -> 5

RECURSIVE PathBefore(_, _)
PathBefore(a, b) ==
    IF a = <<>> THEN b # <<>>
    ELSE IF b = <<>> THEN FALSE
    ELSE IF Head(a) = Head(b) THEN PathBefore(Tail(a), Tail(b))
    ELSE SegmentRank(Head(a)) < SegmentRank(Head(b))

\* sorted(S) for a set of paths
SortedPaths(S) ==
    CHOOSE f \in Orderings(S) : \A i, j \in 1..Cardinality(S) : i < j => PathBefore(f[i], f[j])

\* select_relevant_urls(all_urls)
Relevant(u) ==
    /\ IsHelpDomain(u)
    /\ \A i \in 1..Len(u.path) : u.path[i] \notin URL_EXCLUDE_HINTS
    /\ \E i \in 1..Len(u.path) : u.path[i] \in URL_INCLUDE_HINTS

SelectRelevantUrls(urls) ==
    LET S == {urls[i].path : i \in {k \in 1..Len(urls) : Relevant(urls[k])}}
        sorted == SortedPaths(S)
    IN  [i \in 1..Cardinality(S) |-> Help(sorted[i])]

\* the documents behind the feed URLs
FZIA == Help(<<"rss-feed", "zia">>)
FZPA == Help(<<"rss-feed", "zpa">>)
FRSS == UrlJoin(BASE, <<"rss">>)
FFEED == UrlJoin(BASE, <<"feed">>)
FZDX == Help(<<"rss-feed", "zdx">>)
FEXP == Help(<<"rss-feed", "experience-center">>)
FNODATE == Help(<<"rss-feed", "undated">>)
PAGE1 == Help(<<"release-notes">>)
PAGE_NODATE == Help(<<"whats-new">>)
PAGE_BADDATE == Help(<<"release-notes-2024">>)
SHARED == Help(<<"zdx", "feature1">>)
MALFORMED == [host |-> "[", path |-> <<>>]

\* an <item> with its title, link and pubDate elements ("" and <<>> for an
\* element without text)
Item(title, link, pubDate) ==
    <<Elem("title", IF title = "" THEN <<>> ELSE <<title>>, <<>>),
      Elem("link", link, <<>>),
      Elem("pubDate", pubDate, <<>>)>>

FeedDocument(f) ==
    CASE f = FZIA -> Document("rss",
                       <<Item("ZIA Feature 1", <<Help(<<"zia", "feature1">>)>>, <<Utc(now - 1)>>),
                         Item("ZIA Feature 2", <<Help(<<"zia", "feature2">>)>>, <<Utc(now - 2)>>)>>)
      [] f = FZPA -> Document("rss",
                       <<Item("ZPA Feature 1", <<Help(<<"zpa", "feature1">>)>>, <<Utc(now)>>)>>)
      [] f = FRSS -> Document("rss",
                       <<Item("Archive", <<Help(<<"archive">>)>>, <<Utc(now - 20)>>),
                         Item("", <<Help(<<"untitled">>)>>, <<>>)>>)
      [] f = FZDX -> Document("rss",
                       <<Item("ZDX Feature 1", <<SHARED>>, <<Utc(now - 1)>>)>>)
      [] f = FEXP -> Document("rss",
                       <<Item("Experience Center: ZDX Feature 1", <<SHARED>>, <<Utc(now - 2)>>)>>)
      [] f = FNODATE -> Document("rss",
                       <<Item("No Date", <<Help(<<"zia", "nodate">>)>>, <<>>),
                         Item("Bad Date", <<Help(<<"zia", "baddate">>)>>, <<JunkText>>),
                         Item("Old", <<Help(<<"zia", "old">>)>>, <<Utc(now - 20)>>)>>)
      [] OTHER -> Document("html", <<>>)

\* the page behind a release-notes URL: its date is in the first meta tag;
\* one page carries no date at all and one a meta content that is no date
PageSoup(u) ==
    CASE u = PAGE_NODATE -> Soup(<<<<>>, <<>>, <<>>, <<>>>>, <<>>, <<>>)
      [] u = PAGE_BADDATE -> Soup(<<<<JunkText>>, <<>>, <<>>, <<>>>>, <<>>, <<>>)
      [] OTHER -> Soup(<<<<Utc(now - 3)>>, <<>>, <<>>, <<>>>>, <<>>, <<>>)

\* lines 620-632: the entry scraped from a page
ScrapePage(u) ==
    [title |-> "Release Notes", link |-> u,
     published |-> ExtractDateFromSoup(PageSoup(u), now), source_page |-> u]

Task(phase, u) == [phase |-> phase, url |-> u, st |-> "queued", result |-> <<>>]
Submit(phase, urls) == [i \in 1..Len(urls) |-> Task(phase, urls[i])]

InPhase(ph) == {i \in 1..Len(tasks) : tasks[i].phase = ph}

\* the as_completed loop over the futures of a phase has ended and the with
\* block of its executor is left
NoBarrier(ph) == TRUE
AllCollected(ph) == \A i \in InPhase(ph) : tasks[i].st = "collected"

\* what a task returns when its requests are answered
Answer(t) ==
    CASE t.phase \in {"base", "section"} -> IF t.url \in world.live THEN {t.url} ELSE {}
      [] t.phase = "html" ->
           IF t.url \in DOMAIN world.links
           THEN {f \in world.links[t.url] : IsHelpDomain(f)} ELSE {}
      [] t.phase = "feeds" -> ParseRssFeed(t.url, FeedDocument(t.url), now)
      [] OTHER -> <<ScrapePage(t.url)>>

\* what it returns when a request fails (timeout, status, malformed body):
\* the except clauses of lines 247, 320, 431 and 633 give None, set(), []
\* and None, which the loops of main() and discover_rss_feeds() skip
Empty(t) == IF t.phase \in {"base", "section", "html"} THEN {} ELSE <<>>

Responses(t) == {Answer(t), Empty(t)}

\* lines 260, 334: discovered_feeds.add(...); beside it an accumulator that
\* holds the last result only
ReplaceFeeds(feeds, result) == result
AddFeeds(feeds, result) == feeds \cup result

\* the loops of lines 257, 287, 329, 600 and 639 run in the thread of main():
\* a pass ends before the next begins.  Beside it results that are added by
\* whoever has them.
AnyThread == TRUE
MainThreadFree == \A j \in 1..Len(tasks) : tasks[j].st # "taken"

\* line 577: cutoff = datetime.now(timezone.utc) - timedelta(days=BACKFILL_DAYS);
\* beside it a cutoff that lies ahead of the clock
CutoffAhead(clock, days) == clock + days
Cutoff(clock, days) == clock - days

\* lines 574-581: cutoff is computed, then parse_sitemap(SITEMAP_URL) is called
StartRun ==
    /\ mpc = "start"
    /\ cutoff' = Cutoff(now, backfill)
    /\ calls' = [p \in {RootPath} |-> NewCall("root", "fetch")]
    /\ mpc' = "sitemap"
    /\ UNCHANGED <<now, backfill, all_urls, discovered_feeds, aggregated,
                   window_items, final, rss_xml, written, tasks, world>>
    /\ UNCHANGED <<site, sessionVars, parseVars>>

\* lines 581-586, 251-256: parse_sitemap returns; discover_rss_feeds submits
\* the validation of the common paths at the base URL
SitemapReturned ==
    /\ mpc = "sitemap"
    /\ calls[RootPath].st = "done"
    /\ all_urls' = calls[RootPath].urls
    /\ tasks' = tasks \o Submit("base", [i \in 1..Len(RSS_PATHS) |-> UrlJoin(BASE, <<RSS_PATHS[i]>>)])
    /\ mpc' = "base"
    /\ UNCHANGED <<now, backfill, cutoff, discovered_feeds, aggregated,
                   window_items, final, rss_xml, written, world>>
    /\ UNCHANGED <<sitemapVars, sessionVars, parseVars>>

\* a worker of the phase's executor takes the next task of its queue
RunTask(i) ==
    /\ tasks[i].st = "queued"
    /\ \A j \in InPhase(tasks[i].phase) : j < i => tasks[j].st # "queued"
    /\ Cardinality({j \in InPhase(tasks[i].phase) : tasks[j].st = "running"}) < MAX_WORKERS
    /\ tasks' = [tasks EXCEPT ![i].st = "running"]
    /\ UNCHANGED <<mpc, now, backfill, cutoff, all_urls, discovered_feeds, aggregated,
                   window_items, final, rss_xml, written, world>>
    /\ UNCHANGED <<sitemapVars, sessionVars, parseVars>>

\* validate_rss_url / find_rss_in_page / parse_rss_feed / scrape_page returns
CompleteTask(i) ==
    /\ tasks[i].st = "running"
    /\ \E r \in Responses(tasks[i]) :
          tasks' = [tasks EXCEPT ![i].st = "done", ![i].result = r]
    /\ UNCHANGED <<mpc, now, backfill, cutoff, all_urls, discovered_feeds, aggregated,
                   window_items, final, rss_xml, written, world>>
    /\ UNCHANGED <<sitemapVars, sessionVars, parseVars>>

\* a pass of the as_completed loop of the current phase begins:
\* result = future.result()
TakeResult(i) ==
    /\ mpc = tasks[i].phase
    /\ tasks[i].st = "done"
    /\ MainThreadFree
    /\ tasks' = [tasks EXCEPT ![i].st = "taken"]
    /\ UNCHANGED <<mpc, now, backfill, cutoff, all_urls, discovered_feeds, aggregated,
                   window_items, final, rss_xml, written, world>>
    /\ UNCHANGED <<sitemapVars, sessionVars, parseVars>>

\* the pass ends: the result is added to discovered_feeds or to aggregated
CollectTask(i) ==
    /\ tasks[i].st = "taken"
    /\ tasks' = [tasks EXCEPT ![i].st = "collected"]
    /\ IF tasks[i].phase \in {"base", "section", "html"}
       THEN /\ discovered_feeds' = AddFeeds(discovered_feeds, tasks[i].result)
            /\ UNCHANGED aggregated
       ELSE /\ aggregated' = aggregated \o tasks[i].result
            /\ UNCHANGED discovered_feeds
    /\ UNCHANGED <<mpc, now, backfill, cutoff, all_urls,
                   window_items, final, rss_xml, written, world>>
    /\ UNCHANGED <<sitemapVars, sessionVars, parseVars>>

\* lines 263-286: the path prefixes of the sitemap URLs are taken with
\* urlparse (an exception leaves discover_rss_feeds and main), then the
\* common paths below every prefix are submitted
BaseDone ==
    /\ mpc = "base"
    /\ AllCollected("base")
    /\ IF \E k \in 1..Len(all_urls) : ~UrlParses(all_urls[k])
       THEN /\ mpc' = "crashed"
            /\ UNCHANGED tasks
       ELSE /\ mpc' = "section"
            /\ LET prefixes == SortedPaths(PathPrefixes(all_urls))
                   n == Len(RSS_PATHS)
               IN  tasks' = tasks \o Submit("section",
                      [k \in 1..(Len(prefixes) * n) |->
                          UrlJoin(BASE, Append(prefixes[((k - 1) \div n) + 1],
                                               RSS_PATHS[((k - 1) % n) + 1]))])
    /\ UNCHANGED <<now, backfill, cutoff, all_urls, discovered_feeds, aggregated,
                   window_items, final, rss_xml, written, world>>
    /\ UNCHANGED <<sitemapVars, sessionVars, parseVars>>

\* lines 293-328: the base URL and up to MAX_SECTION_PAGES_TO_CHECK prefixes,
\* in the order list(path_prefixes) gives, are searched for feed links
SectionDone ==
    /\ mpc = "section"
    /\ AllCollected("section")
    /\ \E order \in Orderings(PathPrefixes(all_urls)) :
          LET n == IF Len(order) < MAX_SECTION_PAGES_TO_CHECK
                   THEN Len(order) ELSE MAX_SECTION_PAGES_TO_CHECK
          IN  tasks' = tasks \o Submit("html",
                 <<BASE>> \o [k \in 1..n |-> UrlJoin(BASE, order[k])])
    /\ mpc' = "html"
    /\ UNCHANGED <<now, backfill, cutoff, all_urls, discovered_feeds, aggregated,
                   window_items, final, rss_xml, written, world>>
    /\ UNCHANGED <<sitemapVars, sessionVars, parseVars>>

\* the scraping tasks of step 4
ScrapeTasks == Submit("scrape", SelectRelevantUrls(all_urls))

\* lines 339, 586-598, 611-638: discover_rss_feeds returns; the feeds found
\* are parsed, and without any the relevant pages are scraped
HtmlDone ==
    /\ mpc = "html"
    /\ AllCollected("html")
    /\ IF discovered_feeds # {}
       THEN /\ \E order \in Orderings(discovered_feeds) :
                  tasks' = tasks \o Submit("feeds", order)
            /\ mpc' = "feeds"
       ELSE /\ tasks' = tasks \o ScrapeTasks
            /\ mpc' = "scrape"
    /\ UNCHANGED <<now, backfill, cutoff, all_urls, discovered_feeds, aggregated,
                   window_items, final, rss_xml, written, world>>
    /\ UNCHANGED <<sitemapVars, sessionVars, parseVars>>

\* line 611: "if not aggregated"; beside it a fallback that looks at the
\* feeds found instead, as the docstring of main() words step 4
NoFeedFound == discovered_feeds = {}
NothingAggregated == aggregated = <<>>

\* lines 608-650: after the feeds, pages are scraped if nothing was aggregated
FeedsDone ==
    /\ mpc = "feeds"
    /\ AllCollected("feeds")
    /\ IF NothingAggregated
       THEN /\ tasks' = tasks \o ScrapeTasks
            /\ mpc' = "scrape"
       ELSE /\ UNCHANGED tasks
            /\ mpc' = "filter"
    /\ UNCHANGED <<now, backfill, cutoff, all_urls, discovered_feeds, aggregated,
                   window_items, final, rss_xml, written, world>>
    /\ UNCHANGED <<sitemapVars, sessionVars, parseVars>>

\* lines 648-652
ScrapeDone ==
    /\ mpc = "scrape"
    /\ AllCollected("scrape")
    /\ mpc' = "filter"
    /\ UNCHANGED <<now, backfill, cutoff, all_urls, discovered_feeds, aggregated,
                   window_items, final, rss_xml, written, tasks, world>>
    /\ UNCHANGED <<sitemapVars, sessionVars, parseVars>>

AggNext == FilterStep \/ DedupeStep \/ BuildStep \/ WriteStep

MainNext ==
    \/ StartRun
    \/ SitemapReturned
    \/ \E i \in 1..Len(tasks) : RunTask(i)
    \/ \E i \in 1..Len(tasks) : CompleteTask(i)
    \/ \E i \in 1..Len(tasks) : TakeResult(i)
    \/ \E i \in 1..Len(tasks) : CollectTask(i)
    \/ BaseDone
    \/ SectionDone
    \/ HtmlDone
    \/ FeedsDone
    \/ ScrapeDone
    \/ AggNext

(***************************************************************************)
(* Initial states.                                                         *)
(***************************************************************************)
NoWorld == [name |-> "none"]
NoSite == [name |-> "none"]

SessionUnused ==
    /\ session = 0
    /\ session_lock = 0
    /\ tpc = [t \in Threads |-> "idle"]
    /\ ret = [t \in Threads |-> 0]
    /\ ncalls = [t \in Threads |-> MaxCalls]
    /\ created = 0
    /\ configured = <<>>

NoCalls == [p \in {} |-> NewCall("none", "done")]

SitemapUnused ==
    /\ site = NoSite
    /\ calls = NoCalls

ParseUnused ==
    /\ fpc = "off"
    /\ soup = Soup(<<>>, <<>>, <<>>)
    /\ date_text = NoneText
    /\ dt = 0
    /\ content = Document("none", <<>>)
    /\ parsed_items = <<>>

MainUnused ==
    /\ ParseUnused
    /\ mpc = "off"
    /\ now = 0
    /\ backfill = 0
    /\ cutoff = 0
    /\ all_urls = <<>>
    /\ discovered_feeds = {}
    /\ aggregated = <<>>
    /\ window_items = <<>>
    /\ final = <<>>
    /\ rss_xml = <<>>
    /\ written = FALSE
    /\ tasks = <<>>
    /\ world = NoWorld

\* module import: _session = None, _session_lock = threading.Lock()
InitSession ==
    /\ session = 0
    /\ session_lock = 0
    /\ tpc = [t \in Threads |-> "idle"]
    /\ ret = [t \in Threads |-> 0]
    /\ ncalls = [t \in Threads |-> 0]
    /\ created = 0
    /\ configured = <<>>
    /\ MainUnused
    /\ SitemapUnused

SpecSession == InitSession /\ [][SessionNext]_vars

(***************************************************************************)
(* The tail of main() on every short list of entries.                      *)
(***************************************************************************)
Links == {"A", "B"}
Titles == {"t1", "t2"}
Clocks == {30}
DaysAgo == {0, 10, 20}
BackfillChoices == {10, DEFAULT_BACKFILL_DAYS}

EntriesAt(n) ==
    [title : Titles, link : Links, published : {n - d : d \in DaysAgo},
     source_page : {"src"}]

ListsUpTo(S, n) == UNION {[1..k -> S] : k \in 0..n}

InitAgg ==
    /\ mpc = "filter"
    /\ now \in Clocks
    /\ backfill \in BackfillChoices
    /\ cutoff = now - backfill
    /\ aggregated \in ListsUpTo(EntriesAt(now), MaxItems)
    /\ all_urls = <<>>
    /\ discovered_feeds = {}
    /\ window_items = <<>>
    /\ final = <<>>
    /\ rss_xml = <<>>
    /\ written = FALSE
    /\ tasks = <<>>
    /\ world = NoWorld
    /\ SitemapUnused
    /\ SessionUnused
    /\ ParseUnused

SpecAgg == InitAgg /\ [][AggNext]_vars


(***************************************************************************)
(* Properties of the tail of main().                                       *)
(***************************************************************************)
LinksOf(items) == {items[i].link : i \in 1..Len(items)}

\* the least position of link l in items
FirstIndex(items, l) ==
    CHOOSE i \in 1..Len(items) :
        /\ items[i].link = l
        /\ \A j \in 1..(i - 1) : items[j].link # l

Deduplicated == mpc \in {"build", "write", "done"}

\* C1: after step 6 the list final holds each link at most once, holds every
\* link of the in-window list, and for each link holds the entry that comes
\* first with that link in the in-window list.
C1_DedupFirstWins ==
    Deduplicated =>
        /\ \A i, j \in 1..Len(final) : final[i].link = final[j].link => i = j
        /\ LinksOf(final) = LinksOf(window_items)
        /\ \A i \in 1..Len(final) :
              final[i] = window_items[FirstIndex(window_items, final[i].link)]

\* two different entries share a link and only the earlier one was kept
C1_Witness ==
    /\ mpc = "build"
    /\ Len(final) < Len(window_items)
    /\ \E i, j \in 1..Len(window_items) :
          /\ i < j
          /\ window_items[i].link = window_items[j].link
          /\ window_items[i] # window_items[j]
          /\ window_items[i] \in Range(final)
          /\ window_items[j] \notin Range(final)

Filtered == mpc \in {"dedupe", "build", "write", "done"}

KeptPositions == {i \in 1..Len(aggregated) : aggregated[i].published >= now - backfill}

Published(items) == [i \in 1..Len(items) |-> items[i].published]

\* C2: with cutoff = now - BACKFILL_DAYS, an entry is in the filtered list if
\* and only if published >= cutoff (so an entry exactly at the cutoff stays),
\* and with 14 days, entries at now, now-10, now-20 leave the first two.
C2_RecencyFilter ==
    Filtered =>
        /\ cutoff = now - backfill
        /\ Len(window_items) = Cardinality(KeptPositions)
        /\ \A it \in Range(aggregated) :
              it \in Range(window_items) <=> it.published >= now - backfill
        /\ \A it \in Range(aggregated) :
              it.published = now - backfill => it \in Range(window_items)
        /\ (backfill = DEFAULT_BACKFILL_DAYS
              /\ Published(aggregated) = <<now, now - 10, now - 20>>)
           => Published(window_items) = <<now, now - 10>>

C2_Witness ==
    /\ mpc = "dedupe"
    /\ backfill = DEFAULT_BACKFILL_DAYS
    /\ Published(aggregated) = <<now, now - 10, now - 20>>
    /\ Len(window_items) = 2

\* C25: a link that has an entry inside the window among the aggregated
\* entries is in the list after deduplication and in the feed built from it,
\* also when an entry of that link from before the cutoff comes earlier.
C25_FilterBeforeDedupe ==
    Deduplicated =>
        \A i \in 1..Len(aggregated) :
            aggregated[i].published >= cutoff =>
                /\ aggregated[i].link \in LinksOf(final)
                /\ mpc \in {"write", "done"} => aggregated[i].link \in LinksOf(rss_xml)

\* the first entry of a link is older than the cutoff, a later one is not,
\* and the later one is in the result
C25_Witness ==
    /\ mpc = "build"
    /\ \E i, j \in 1..Len(aggregated) :
          /\ i < j
          /\ aggregated[i].link = aggregated[j].link
          /\ aggregated[i].published < cutoff
          /\ aggregated[j].published >= cutoff
          /\ aggregated[j] \in Range(final)

Built == mpc \in {"write", "done"}

\* the position in final of the entry with link l (links of final are unique)
FinalIndex(l) == CHOOSE i \in 1..Len(final) : final[i].link = l

\* C3: the entries of the emitted feed are those given to build_feed, ordered
\* by published descending, entries of equal published in their input order.
C3_EmittedNewestFirst ==
    Built =>
        /\ Len(rss_xml) = Len(final)
        /\ Range(rss_xml) = Range(final)
        /\ \A i, j \in 1..Len(rss_xml) :
              i < j =>
                 /\ rss_xml[i].published >= rss_xml[j].published
                 /\ rss_xml[i].published = rss_xml[j].published
                      => FinalIndex(rss_xml[i].link) < FinalIndex(rss_xml[j].link)

(***************************************************************************)
(* Properties of get_session().                                            *)
(***************************************************************************)
\* C10: however the first calls interleave, one Session object is constructed
\* and every call that has returned has returned that object.
C10_OneSession ==
    /\ created <= 1
    /\ \A t \in Threads : ncalls[t] > 0 => (created = 1 /\ ret[t] = 1)
    /\ \A t \in Threads : tpc[t] = "return" => session = 1

\* three first calls overlap: one thread is still setting the session up, one
\* waits for the lock having seen None, and one has been handed the object
C10_Witness ==
    \E t1, t2, t3 \in Threads :
        /\ tpc[t1] = "headers"
        /\ tpc[t2] = "lock"
        /\ ncalls[t3] > 0
        /\ ret[t3] = 1
        /\ created = 1

\* the set-up steps of lines 97-99: two mounts and the headers
FullyConfigured(s) == s \in DOMAIN configured /\ configured[s] = 3

\* C23: whenever get_session has returned to a caller, the object it returned
\* has its adapters mounted for http and https and its headers set.
C23_FullyInitialised ==
    \A t \in Threads : ncalls[t] > 0 => FullyConfigured(ret[t])

(***************************************************************************)
(* Sitemap documents served to parse_sitemap, and its specifications.      *)
(***************************************************************************)
Outcomes == {"ok", "fetch_fail", "bad_xml"}

Index(kids) == [kind |-> "sitemapindex", kids |-> kids, locs |-> <<>>, stray |-> <<>>]
UrlSet(locs) == [kind |-> "urlset", kids |-> <<>>, locs |-> locs, stray |-> <<>>]
Other(stray) == [kind |-> "other", kids |-> <<>>, locs |-> <<>>, stray |-> stray]

\* a root index of two urlsets of two URLs each
TwoByTwoDocs ==
    ("root" :> Index(<<"A", "B">>)) @@
    ("A" :> UrlSet(<<"u1", "u2">>)) @@
    ("B" :> UrlSet(<<"u3", "u4">>))

\* an index inside an index, beside a document of an unknown root tag
MixedDocs ==
    ("root" :> Index(<<"I", "C">>)) @@
    ("I" :> Index(<<"A">>)) @@
    ("A" :> UrlSet(<<"u1">>)) @@
    ("C" :> Other(<<"u5">>))

\* a root index of two indexes that list six and five empty urlsets
LeavesOfI1 == <<"L1", "L2", "L3", "L4", "L5", "L6">>
LeavesOfI2 == <<"L7", "L8", "L9", "L10", "L11">>
NestedDocs ==
    [d \in {"root", "I1", "I2"} \cup Range(LeavesOfI1) \cup Range(LeavesOfI2) |->
        CASE d = "root" -> Index(<<"I1", "I2">>)
          [] d = "I1" -> Index(LeavesOfI1)
          [] d = "I2" -> Index(LeavesOfI2)
          [] OTHER -> UrlSet(<<>>)]

SitesOf(docs) == {[docs |-> docs, outcome |-> o] : o \in [DOMAIN docs -> Outcomes]}
AllOk(docs) == [docs |-> docs, outcome |-> [d \in DOMAIN docs |-> "ok"]]

RootCalled == [p \in {RootPath} |-> NewCall("root", "fetch")]

\* parse_sitemap(root) called on its own
InitSitemap ==
    /\ site \in SitesOf(TwoByTwoDocs) \cup SitesOf(MixedDocs)
    /\ calls = RootCalled
    /\ MainUnused
    /\ SessionUnused

SpecSitemap == InitSitemap /\ [][SitemapNext]_vars

InitNested ==
    /\ site = AllOk(NestedDocs)
    /\ calls = RootCalled
    /\ MainUnused
    /\ SessionUnused

SpecNested == InitNested /\ [][SitemapNext]_vars

(***************************************************************************)
(* Properties of parse_sitemap.                                            *)
(***************************************************************************)
Returned(p) == calls[p].st \in {"done", "collected"}

\* what the branch below document d contributes when failed branches count
\* as empty
RECURSIVE BranchUrls(_)
BranchUrls(d) ==
    IF site.outcome[d] # "ok" THEN {}
    ELSE IF site.docs[d].kind = "sitemapindex"
         THEN UNION {BranchUrls(site.docs[d].kids[k]) : k \in 1..Len(site.docs[d].kids)}
         ELSE Range(site.docs[d].locs) \cup Range(site.docs[d].stray)

\* C6: a failed fetch or parse makes that invocation return [] and nothing
\* else: no invocation ends with an exception, and every invocation returns
\* exactly the URLs of the branches below it that succeeded.
C6_FailureIsolation ==
    \A p \in DOMAIN calls :
        /\ calls[p].st # "raised"
        /\ Returned(p) =>
              /\ site.outcome[calls[p].doc] # "ok" => calls[p].urls = <<>>
              /\ Range(calls[p].urls) = BranchUrls(calls[p].doc)

\* sub-sitemap A failed, its sibling B did not: the root returns B's URLs
C6_Witness ==
    /\ site.docs = TwoByTwoDocs
    /\ site.outcome["root"] = "ok"
    /\ site.outcome["A"] = "fetch_fail"
    /\ site.outcome["B"] = "ok"
    /\ calls[RootPath].st = "done"
    /\ calls[RootPath].urls = <<"u3", "u4">>

\* every document below d, d included
RECURSIVE Below(_)
Below(d) ==
    {d} \cup UNION {Below(site.docs[d].kids[k]) : k \in 1..Len(site.docs[d].kids)}

\* the <url><loc> and stray <loc> texts of the documents below d
DocumentUrls(d) ==
    UNION {Range(site.docs[e].locs) \cup Range(site.docs[e].stray) : e \in Below(d)}

\* C7: when every document is served, a returned sitemap index holds the
\* union of the URLs of its nested sitemaps whatever the order of completion;
\* two sub-sitemaps of two URLs give four URLs.
C7_IndexResolution ==
    \A p \in DOMAIN calls :
        (/\ Returned(p)
         /\ site.docs[calls[p].doc].kind = "sitemapindex"
         /\ \A e \in Below(calls[p].doc) : site.outcome[e] = "ok")
        => /\ Range(calls[p].urls) = DocumentUrls(calls[p].doc)
           /\ (site.docs = TwoByTwoDocs /\ p = RootPath)
                 => Cardinality(Range(calls[p].urls)) = 4

\* the second sub-sitemap completed first
C7_Witness ==
    /\ site = AllOk(TwoByTwoDocs)
    /\ calls[RootPath].st = "done"
    /\ calls[RootPath].urls = <<"u3", "u4", "u1", "u2">>

Fetching == {p \in DOMAIN calls : calls[p].st = "fetch"}

\* C9: never more than MAX_WORKERS network tasks run at the same time.
C9_BoundedFetches == Cardinality(Fetching) <= MAX_WORKERS


(***************************************************************************)
(* parse_sitemap on sites whose sitemap indexes list themselves or each    *)
(* other.                                                                  *)
(***************************************************************************)
\* a root index that lists itself beside a urlset
SelfListingDocs ==
    ("root" :> Index(<<"root", "A">>)) @@
    ("A" :> UrlSet(<<"u1">>))

\* a root index and the index it lists list each other
MutualDocs ==
    ("root" :> Index(<<"I", "A">>)) @@
    ("I" :> Index(<<"root">>)) @@
    ("A" :> UrlSet(<<"u1">>))

InitCycle ==
    /\ site \in SitesOf(SelfListingDocs) \cup SitesOf(MutualDocs) \cup SitesOf(MixedDocs)
    /\ calls = RootCalled
    /\ MainUnused
    /\ SessionUnused

SpecCycle == InitCycle /\ [][SitemapNext]_vars

\* the invocations around invocation p
Around(p) == {SubSeq(p, 1, k) : k \in 0..(Len(p) - 1)}

\* C24: whatever finite set of documents the site serves, parse_sitemap(root)
\* returns in the end.  An invocation knows nothing of the invocations around
\* it and the site answers the same each time, so that is: no invocation
\* resolves a document that an invocation around it is resolving (it would
\* submit itself again without end), and as long as the root invocation has
\* not returned some invocation can take a step.
C24_Terminates ==
    /\ \A p \in DOMAIN calls : \A q \in Around(p) : calls[q].doc # calls[p].doc
    /\ Returned(RootPath) \/ ENABLED SitemapNext

(***************************************************************************)
(* A run of main() against a small site.                                   *)
(***************************************************************************)
\* the sitemap: an index of one urlset that lists a release-notes page
PagesDocs ==
    ("root" :> Index(<<"A">>)) @@
    ("A" :> UrlSet(<<PAGE1>>))

\* the sitemap: a urlset with a <loc> that is no URL
MalformedLocDocs == ("root" :> UrlSet(<<MALFORMED>>))

MainSites ==
    {AllOk(PagesDocs),
     [docs |-> PagesDocs, outcome |-> ("root" :> "ok") @@ ("A" :> "fetch_fail")],
     [docs |-> PagesDocs, outcome |-> ("root" :> "bad_xml") @@ ("A" :> "ok")],
     AllOk(MalformedLocDocs)}

\* two of the common paths answer as feeds
TwoLive == [live |-> {FRSS, FFEED}, links |-> (BASE :> {})]

\* the base page links two feeds that report the same article
SameArticle == [live |-> {}, links |-> (BASE :> {FZDX, FEXP})]

\* the /rss page is a directory of four feeds (MOCK_RSS_DIRECTORY_HTML)
Directory ==
    [live |-> {}, links |-> (BASE :> {}) @@ (FRSS :> {FZIA, FZPA, FEXP, FZDX})]

Worlds ==
    {[live |-> l, links |-> (BASE :> k)] :
        l \in {{}, {FRSS}}, k \in {{}, {FZIA, FZPA}}}
    \cup {TwoLive, SameArticle, Directory}

Init ==
    /\ mpc = "start"
    /\ now \in Clocks
    /\ backfill = DEFAULT_BACKFILL_DAYS
    /\ cutoff = 0
    /\ all_urls = <<>>
    /\ discovered_feeds = {}
    /\ aggregated = <<>>
    /\ window_items = <<>>
    /\ final = <<>>
    /\ rss_xml = <<>>
    /\ written = FALSE
    /\ tasks = <<>>
    /\ world \in Worlds
    /\ site \in MainSites
    /\ calls = NoCalls
    /\ SessionUnused
    /\ ParseUnused

Next == MainNext \/ SitemapNext

Spec == Init /\ [][Next]_vars


(***************************************************************************)
(* A run of main() while the clock moves on.                               *)
(***************************************************************************)
MaxTicks == 2            \* days that pass during a run

LastClock == CHOOSE c \in Clocks : \A d \in Clocks : d <= c

\* datetime.now(timezone.utc) gives a later reading
Tick ==
    /\ mpc \notin {"done", "crashed"}
    /\ now < LastClock + MaxTicks
    /\ now' = now + 1
    /\ UNCHANGED <<mpc, backfill, cutoff, all_urls, discovered_feeds, aggregated,
                   window_items, final, rss_xml, written, tasks, world>>
    /\ UNCHANGED <<sitemapVars, sessionVars, parseVars>>

\* the sitemap: an index of one urlset that lists one page
OnePageDocs(u) ==
    ("root" :> Index(<<"A">>)) @@
    ("A" :> UrlSet(<<u>>))

\* the base page links a feed with items that carry no usable date
UndatedFeed == [live |-> {}, links |-> (BASE :> {FNODATE})]
NoFeeds == [live |-> {}, links |-> (BASE :> {})]

InitClock ==
    /\ mpc = "start"
    /\ now \in Clocks
    /\ backfill \in {0, 1, DEFAULT_BACKFILL_DAYS}
    /\ cutoff = 0
    /\ all_urls = <<>>
    /\ discovered_feeds = {}
    /\ aggregated = <<>>
    /\ window_items = <<>>
    /\ final = <<>>
    /\ rss_xml = <<>>
    /\ written = FALSE
    /\ tasks = <<>>
    /\ world \in {UndatedFeed, NoFeeds}
    /\ site \in {AllOk(OnePageDocs(u)) : u \in {PAGE_NODATE, PAGE_BADDATE}}
    /\ calls = NoCalls
    /\ SessionUnused
    /\ ParseUnused

ClockNext == Next \/ Tick

SpecClock == InitClock /\ [][ClockNext]_vars

\* an entry of an item or a page without a date that can be read
Undated(it) ==
    \/ it.title \in {"No Date", "Bad Date"}
    \/ it.link \in {PAGE_NODATE, PAGE_BADDATE}

TitlesOf(items) == [i \in 1..Len(items) |-> items[i].title]

\* C4: with the feeds of the two products discovered and parsed, the feed
\* written has the three entries in the order today, yesterday, two days
\* ago, whichever feed task completed first.
C4_EndToEnd ==
    (/\ mpc = "done"
     /\ backfill = DEFAULT_BACKFILL_DAYS
     /\ discovered_feeds = {FZIA, FZPA}
     /\ \A i \in InPhase("feeds") : tasks[i].result # <<>>)
    => TitlesOf(rss_xml) = <<"ZPA Feature 1", "ZIA Feature 1", "ZIA Feature 2">>

Ended == mpc \in {"done", "crashed"}

\* C5: whatever the site answers, a run that has ended has written the feed.
C5_NothingFatal == Ended => written

PhaseRank(ph) ==
    CASE ph = "base" -> 1
      [] ph = "section" -> 2
      [] ph = "html" -> 3
      [] ph = "feeds" -> 4
      [] OTHER -> 5

Completed(i) == tasks[i].st \in {"done", "taken", "collected"}

\* C8: a task exists only when every task of the phases before its own has
\* completed: the sitemap invocations before any task of discovery, the
\* tasks of each phase before those of the next, and all of them before the
\* filter, dedupe and build steps.
C8_PhaseBarriers ==
    /\ tasks # <<>> => \A p \in DOMAIN calls : Returned(p)
    /\ \A i, j \in 1..Len(tasks) :
          PhaseRank(tasks[i].phase) < PhaseRank(tasks[j].phase) => Completed(i)
    /\ mpc \in {"filter", "dedupe", "build", "write", "done"}
          => /\ \A i \in 1..Len(tasks) : Completed(i)
             /\ \A p \in DOMAIN calls : Returned(p)

\* a feed is being parsed after tasks of the three phases of discovery
C8_Witness ==
    /\ \E j \in InPhase("feeds") : tasks[j].st = "running"
    /\ InPhase("base") # {}
    /\ InPhase("section") # {}
    /\ InPhase("html") # {}
    /\ Cardinality(DOMAIN calls) > 1

(***************************************************************************)
(* normalize_date and extract_date_from_soup on their own.  Time is in     *)
(* hours here.                                                             *)
(***************************************************************************)
MaxElems == 2            \* most elements of a page drawn as an input

HourClocks == {720}
Walls == {700, 720}
Offsets == {-5, 0, 1}

DateTexts ==
    {NoneText, EmptyText, JunkText}
    \cup {Naive(w) : w \in Walls}
    \cup {WithOffset(w, o) : w \in Walls, o \in Offsets}
    \cup {WithZoneName(w, o) : w \in Walls, o \in Offsets \ {0}}

NoSoup == Soup(<<>>, <<>>, <<>>)

MetaContents(i) == {<<>>, <<JunkText>>, <<Utc(700 + i)>>}
Metas ==
    {m \in [META_SELECTORS -> UNION {MetaContents(i) : i \in META_SELECTORS}] :
        \A i \in META_SELECTORS : m[i] \in MetaContents(i)}
TimeEls ==
    {<<>>} \cup {<<TimeEl(d, t)>> : d \in {<<>>, <<Utc(705)>>},
                                  t \in {<<>>, <<JunkText>>, <<Naive(706)>>}}
Elements ==
    {Element(FALSE, <<Naive(707)>>), Element(TRUE, <<>>),
     Element(TRUE, <<Naive(708)>>), Element(TRUE, <<Naive(709)>>)}
SoupsUpTo(n) == {Soup(m, t, e) : m \in Metas, t \in TimeEls, e \in ListsUpTo(Elements, n)}

MainIdle ==
    /\ mpc = "off"
    /\ backfill = 0
    /\ cutoff = 0
    /\ all_urls = <<>>
    /\ discovered_feeds = {}
    /\ aggregated = <<>>
    /\ window_items = <<>>
    /\ final = <<>>
    /\ rss_xml = <<>>
    /\ written = FALSE
    /\ tasks = <<>>
    /\ world = NoWorld

\* normalize_date(date_text) called on a text, or extract_date_from_soup(soup)
\* called on a page
InitDates ==
    /\ now \in HourClocks
    /\ \/ /\ fpc = "normalize_date"
          /\ date_text \in DateTexts
          /\ soup = NoSoup
       \/ /\ fpc = "extract_date_from_soup"
          /\ date_text = NoneText
          /\ soup \in SoupsUpTo(MaxElems)
    /\ dt = 0
    /\ content = Document("none", <<>>)
    /\ parsed_items = <<>>
    /\ MainIdle
    /\ SitemapUnused
    /\ SessionUnused

SpecDates == InitDates /\ [][DateNext]_vars

\* C11: normalize_date returns a UTC timestamp for every argument: the clock
\* for None, "" and a text that is no date; the written time unchanged for a
\* date without zone; and for a date with a zone the same instant in UTC.
C11_NormalizeTotal ==
    fpc = "returned" =>
        /\ dt \in Int
        /\ date_text.kind # "date" => dt = now
        /\ (date_text.kind = "date" /\ date_text.zone = "naive") => dt = date_text.wall
        /\ (date_text.kind = "date" /\ date_text.zone # "naive")
              => dt = date_text.wall - date_text.off

Extracted == fpc = "returned" /\ soup # NoSoup

MetaSet(s) == {i \in META_SELECTORS : s.meta[i] # <<>>}
Matching(s) == {k \in 1..Len(s.elems) : s.elems[k].keyword /\ s.elems[k].shape # <<>>}
Least(S) == CHOOSE i \in S : \A j \in S : i <= j
HasTimeText(s) == s.time # <<>> /\ (s.time[1].datetime # <<>> \/ s.time[1].text # <<>>)

\* C18: the date of a page is normalize_date of the first meta content in
\* selector order; without one, of the time element's datetime, else of its
\* text; without that, of the date shape of the first keyword-bearing element
\* that has one; and the clock when there is none of these.  A text that is
\* no date gives the clock even if a later strategy has a date.
C18_StrategyOrder ==
    Extracted =>
        /\ MetaSet(soup) # {}
              => dt = NormalizeDate(soup.meta[Least(MetaSet(soup))][1], now)
        /\ (MetaSet(soup) = {} /\ soup.time # <<>> /\ soup.time[1].datetime # <<>>)
              => dt = NormalizeDate(soup.time[1].datetime[1], now)
        /\ (MetaSet(soup) = {} /\ soup.time # <<>> /\ soup.time[1].datetime = <<>>
              /\ soup.time[1].text # <<>>)
              => dt = NormalizeDate(soup.time[1].text[1], now)
        /\ (MetaSet(soup) = {} /\ ~HasTimeText(soup) /\ Matching(soup) # {})
              => dt = NormalizeDate(soup.elems[Least(Matching(soup))].shape[1], now)
        /\ (MetaSet(soup) = {} /\ ~HasTimeText(soup) /\ Matching(soup) = {})
              => dt = now
        /\ (MetaSet(soup) # {} /\ soup.meta[Least(MetaSet(soup))] = <<JunkText>>)
              => dt = now

\* the second meta tag holds no date, the time element and an element do:
\* the clock is returned
C18_Witness ==
    /\ Extracted
    /\ soup.meta[1] = <<>>
    /\ soup.meta[2] = <<JunkText>>
    /\ soup.meta[3] # <<>>
    /\ soup.time # <<>>
    /\ soup.time[1].datetime # <<>>
    /\ Matching(soup) # {}
    /\ dt = now

(***************************************************************************)
(* parse_rss_feed on its own, on every short RSS or Atom document.  Time   *)
(* is in hours here.                                                       *)
(***************************************************************************)
MaxEntries == 2          \* most <item> / <entry> elements of a document

RELATIVE == [host |-> "", path |-> <<"zia", "feature1">>]

RssItems ==
    {Item(t, l, d) : t \in {"", " ", "t1"},
                     l \in {<<>>, <<Help(<<"zia", "feature1">>)>>, <<RELATIVE>>},
                     d \in {<<>>, <<JunkText>>, <<Utc(700)>>, <<Naive(710)>>}}

Published701 == Elem("published", <<Utc(701)>>, <<>>)
Updated702 == Elem("updated", <<Utc(702)>>, <<>>)

AtomEntries ==
    {<<Elem("title", t, <<>>), Elem("link", <<>>, h)>> \o d :
        t \in {<<>>, <<"t1">>},
        h \in {<<>>, <<Help(<<"zia", "feature1">>)>>},
        d \in {<<>>, <<Published701>>, <<Updated702>>,
               <<Published701, Updated702>>, <<Updated702, Published701>>}}

DocumentsUpTo(n) ==
    {Document("rss", e) : e \in ListsUpTo(RssItems, n)}
    \cup {Document("feed", e) : e \in ListsUpTo(AtomEntries, n)}
    \cup {Document("html", <<>>)}

\* parse_rss_feed(feed_url) called, fetch having returned content
InitParse ==
    /\ now \in HourClocks
    /\ fpc = "parse_rss_feed"
    /\ content \in {Fetched("xml", d) : d \in DocumentsUpTo(MaxEntries)}
    /\ parsed_items = <<>>
    /\ soup = NoSoup
    /\ date_text = NoneText
    /\ dt = 0
    /\ MainIdle
    /\ SitemapUnused
    /\ SessionUnused

SpecParse == InitParse /\ [][ParseRssFeedCall]_vars

Parsed == fpc = "returned" /\ content.root # "none"

\* an entry's link has a scheme and a host
IsAbsolute(u) == u.host \notin {"", "["}

\* C12: every entry parse_rss_feed returns has a link that is an absolute
\* URL and a published timestamp.
C12_EntryInvariant ==
    Parsed =>
        \A k \in 1..Len(parsed_items) :
            /\ IsAbsolute(parsed_items[k].link)
            /\ parsed_items[k].published \in Int

\* the text (the href) of the child element of x with the given tag
TextOf(x, tag) ==
    IF \E j \in 1..Len(x) : x[j].tag = tag
    THEN x[CHOOSE j \in 1..Len(x) : x[j].tag = tag].text
    ELSE <<>>
HrefOf(x, tag) ==
    IF \E j \in 1..Len(x) : x[j].tag = tag
    THEN x[CHOOSE j \in 1..Len(x) : x[j].tag = tag].href
    ELSE <<>>

\* the items of content that have a title that is not blank and a link
Complete ==
    {k \in 1..Len(content.entries) :
        /\ TextOf(content.entries[k], "title") \notin {<<>>, <<" ">>}
        /\ \/ content.root = "rss" /\ TextOf(content.entries[k], "link") # <<>>
           \/ content.root = "feed" /\ HrefOf(content.entries[k], "link") # <<>>}

\* the n-th of them in document order
NthComplete(n) == CHOOSE k \in Complete : Cardinality({j \in Complete : j <= k}) = n

\* C13: for an RSS document the list returned holds, in document order, one
\* entry for each item with a title and a link and none for the others; the
\* entry of an item without pubDate, or with a pubDate that is no date, is
\* there with the clock as its timestamp.
C13_RssCount ==
    (Parsed /\ content.root = "rss") =>
        /\ Len(parsed_items) = Cardinality(Complete)
        /\ \A n \in 1..Len(parsed_items) :
              LET x == content.entries[NthComplete(n)]
              IN  /\ parsed_items[n].title = TextOf(x, "title")[1]
                  /\ parsed_items[n].link = TextOf(x, "link")[1]
                  /\ TextOf(x, "pubDate") \in {<<>>, <<JunkText>>}
                        => parsed_items[n].published = now
                  /\ TextOf(x, "pubDate") # <<>>
                        => parsed_items[n].published = NormalizeDate(TextOf(x, "pubDate")[1], now)

\* an item without title is dropped, the item after it has no usable date
\* and is returned
C13_Witness ==
    /\ Parsed
    /\ content.root = "rss"
    /\ Len(content.entries) = 2
    /\ TextOf(content.entries[1], "title") = <<>>
    /\ TextOf(content.entries[2], "pubDate") = <<JunkText>>
    /\ Len(parsed_items) = 1
    /\ parsed_items[1].published = now

\* C14: the timestamp of an Atom entry with a published element is that of
\* published, wherever updated stands; updated counts when published is absent.
C14_AtomPublishedFirst ==
    (Parsed /\ content.root = "feed") =>
        \A n \in 1..Len(parsed_items) :
            LET x == content.entries[NthComplete(n)]
            IN  /\ TextOf(x, "published") # <<>>
                      => parsed_items[n].published = NormalizeDate(TextOf(x, "published")[1], now)
                /\ (TextOf(x, "published") = <<>> /\ TextOf(x, "updated") # <<>>)
                      => parsed_items[n].published = NormalizeDate(TextOf(x, "updated")[1], now)

(***************************************************************************)
(* One pass of the feed loop of main(): parse_rss_feed on a feed whose     *)
(* fetch may fail, after another feed has given an entry.                  *)
(***************************************************************************)
FailedFetches ==
    {Fetched(k, NoDocument) : k \in {"fetch_fail", "empty", "text", "malformed"}}

\* the entry aggregated from the feed parsed before
Earlier ==
    <<[title |-> "ZPA Feature 1", link |-> Help(<<"zpa", "feature1">>),
       published |-> 719, source_page |-> FZPA]>>

InitFeedLoop ==
    /\ now \in HourClocks
    /\ fpc = "parse_rss_feed"
    /\ content \in FailedFetches \cup {Fetched("xml", d) : d \in DocumentsUpTo(1)}
    /\ parsed_items = <<>>
    /\ soup = NoSoup
    /\ date_text = NoneText
    /\ dt = 0
    /\ mpc = "feeds"
    /\ backfill = DEFAULT_BACKFILL_DAYS
    /\ cutoff = 0
    /\ all_urls = <<>>
    /\ discovered_feeds = {FZIA, FZPA}
    /\ aggregated = Earlier
    /\ window_items = <<>>
    /\ final = <<>>
    /\ rss_xml = <<>>
    /\ written = FALSE
    /\ tasks = <<>>
    /\ world = NoWorld
    /\ SitemapUnused
    /\ SessionUnused

FeedLoopNext == ParseRssFeedCall \/ FeedLoopPass

SpecFeedLoop == InitFeedLoop /\ [][FeedLoopNext]_vars

Failed(c) == c.kind # "xml"

\* C22: parse_rss_feed never ends with an exception; when the fetch fails or
\* the content is empty, shows no sign of XML or is malformed, it returns
\* the empty list and the entries aggregated before stay as they were; a
\* well-formed feed adds its complete entries behind them.
C22_ParseFailure ==
    /\ fpc # "raised"
    /\ (fpc \in {"returned", "extended"} /\ Failed(content)) =>
          /\ parsed_items = <<>>
          /\ aggregated = Earlier
    /\ (fpc = "extended" /\ ~Failed(content)) =>
          /\ SubSeq(aggregated, 1, Len(Earlier)) = Earlier
          /\ Len(aggregated) = Len(Earlier) + Cardinality(Complete)

\* the feed was malformed XML: the pass of the loop has ended and aggregated
\* holds the earlier entry alone
C22_Witness ==
    /\ fpc = "extended"
    /\ content.kind = "malformed"
    /\ parsed_items = <<>>
    /\ aggregated = Earlier

(***************************************************************************)
(* parse_sitemap on a site that serves compressed sitemaps.                *)
(***************************************************************************)
GzOutcomes == {"ok", "fetch_fail", "bad_xml", "gzip", "gzip_junk", "gzip_corrupt"}

\* a root index of sitemap A.gz and sitemap B
GzDocs ==
    ("root" :> Index(<<"A.gz", "B">>)) @@
    ("A.gz" :> UrlSet(<<"u1", "u2">>)) @@
    ("B" :> UrlSet(<<"u3">>))

InitGzip ==
    /\ site \in {[docs |-> GzDocs, outcome |-> o] : o \in [DOMAIN GzDocs -> GzOutcomes]}
    /\ calls = RootCalled
    /\ MainUnused
    /\ SessionUnused

SpecGzip == InitGzip /\ [][SitemapNext]_vars

\* the URLs below document d when plain and gzip-compressed XML documents
\* are read and every other answer counts as empty
RECURSIVE ReadUrls(_)
ReadUrls(d) ==
    IF site.outcome[d] \notin {"ok", "gzip"} THEN {}
    ELSE IF site.docs[d].kind = "sitemapindex"
         THEN UNION {ReadUrls(site.docs[d].kids[k]) : k \in 1..Len(site.docs[d].kids)}
         ELSE Range(site.docs[d].locs) \cup Range(site.docs[d].stray)

\* C15: a gzip-compressed sitemap is read like the plain one, whether its
\* URL ends in .gz or only its first bytes tell; a plain document under a
\* .gz URL is read as it is; bytes that neither inflate nor parse give an
\* empty result; no invocation ends with an exception.
C15_GzipHandling ==
    \A p \in DOMAIN calls :
        /\ calls[p].st # "raised"
        /\ Returned(p) =>
              /\ Range(calls[p].urls) = ReadUrls(calls[p].doc)
              /\ site.outcome[calls[p].doc] \in {"gzip_corrupt", "gzip_junk", "bad_xml"}
                    => calls[p].urls = <<>>

\* the root is compressed without a telling name and is read; A.gz is
\* served plain and is read as it is; B starts like gzip, does not inflate
\* and counts as empty
C15_Witness ==
    /\ site.outcome = ("root" :> "gzip") @@ ("A.gz" :> "ok") @@ ("B" :> "gzip_corrupt")
    /\ calls[RootPath].st = "done"
    /\ calls[RootPath].urls = <<"u1", "u2">>
    /\ \A p \in DOMAIN calls : Returned(p)

(***************************************************************************)
(* Properties of discover_rss_feeds() and of the accumulators of main().   *)
(***************************************************************************)
DiscoveryTasks == InPhase("base") \cup InPhase("section") \cup InPhase("html")

\* discover_rss_feeds has returned its set
DiscoveryReturned ==
    mpc \in {"feeds", "scrape", "filter", "dedupe", "build", "write", "done"}

\* the requests of task i were answered
Answered(i) == Completed(i) /\ tasks[i].result = Answer(tasks[i])

Writers == {i \in 1..Len(tasks) : tasks[i].st = "taken"}

RECURSIVE CollectedLen(_)
CollectedLen(n) ==
    IF n = 0 THEN 0
    ELSE CollectedLen(n - 1) +
         (IF tasks[n].st = "collected" /\ tasks[n].phase \in {"feeds", "scrape"}
          THEN Len(tasks[n].result) ELSE 0)

\* C17: at most one result is being added to discovered_feeds or aggregated
\* at any time, and the accumulators hold the result of every task whose
\* pass of the loop has ended.
C17_AccumulatorSafety ==
    /\ Cardinality(Writers) <= 1
    /\ \A i \in DiscoveryTasks :
          tasks[i].st = "collected" => tasks[i].result \subseteq discovered_feeds
    /\ \A i \in InPhase("feeds") \cup InPhase("scrape") :
          tasks[i].st = "collected" => Range(tasks[i].result) \subseteq Range(aggregated)
    /\ Len(aggregated) = CollectedLen(Len(tasks))

\* two checks have completed at the same time: the result of one is being
\* added while the other waits, and an earlier one is in the set
C17_Witness ==
    \E i, j, k \in InPhase("base") :
        /\ tasks[i].st = "taken"
        /\ tasks[i].result # {}
        /\ tasks[j].st = "done"
        /\ tasks[k].st = "collected"
        /\ tasks[k].result # {}
        /\ tasks[k].result \subseteq discovered_feeds

\* the tasks whose results make up aggregated
SourceTasks == InPhase("feeds") \cup InPhase("scrape")

\* aggregated, had the loops met the tasks in the given order
RECURSIVE InOrder(_)
InOrder(order) ==
    IF order = <<>> THEN <<>>
    ELSE tasks[Head(order)].result \o InOrder(Tail(order))

\* C19: the entries that survive deduplication are the same for every order
\* in which the feed or scrape tasks complete, and for each link it is the
\* entry a newest-first stable sort puts first.
C19_SurvivorFixed ==
    mpc = "done" =>
        /\ \A order \in Orderings(SourceTasks) :
              Range(Deduplicate(ApplyWindow(InOrder(order), cutoff))) = Range(final)
        /\ Range(final) = Range(Deduplicate(SortedNewestFirst(window_items)))

\* the feed phase is over: pages are being scraped or the tail of main() runs
PastFeeds == mpc \in {"scrape", "filter", "dedupe", "build", "write", "done"}

\* some parsed feed gave an item
FeedsGaveItems == \E i \in InPhase("feeds") : tasks[i].result # <<>>

FromFeeds(items) == \A k \in 1..Len(items) : items[k].source_page \in discovered_feeds

\* the URLs of the scrape tasks, in the order of submission
ScrapeUrls ==
    LET n == Cardinality(InPhase("scrape"))
    IN  [i \in 1..n |-> tasks[Len(tasks) - n + i].url]

C20_DirectoryPage ==
    (/\ DiscoveryReturned
     /\ all_urls = <<>>
     /\ FRSS \in DOMAIN world.links
     /\ \A i \in DiscoveryTasks : Answered(i))
    => /\ world.links[FRSS] \subseteq discovered_feeds
       /\ Cardinality(discovered_feeds) >= 4

====
